---- MODULE Spec2Model ----
(***************************************************************************)
(* CommanderPlayCalculator: a Monte Carlo estimate of the turn on which a  *)
(* commander can first be cast.  The repository holds four revisions of    *)
(* one script.  CommanderRampV003.py (class Game, run_simulation) is the   *)
(* coloured-mana engine; CommanderRampV001.py / V002.py are its colourless *)
(* predecessors, whose Game is the V003 Game restricted to build_deck      *)
(* decks and whose run_simulation averages without a guard;                *)
(* CommanderRampV004.py is the class-based simulate_game.  The variable    *)
(* version says which revision a behaviour runs.                           *)
(***************************************************************************)
EXTENDS Integers, Sequences, FiniteSets, TLC

\* ------------------------------------------------------------------ bounds
MaxTurns == 3
MaxTrials == 2

\* The largest amount of one colour in a commander cost.
MaxPip == 2

\* ------------------------------------------------------- program constants
OpeningHand == 7

Colors == {"colorless", "black", "green"}

NoMana == [c \in Colors |-> 0]

Mana(color, n) == [c \in Colors |-> IF c = color THEN n ELSE 0]

\* Card.__init__: the attributes of one card object.
Card(name, ctype, cost, mana, enters_tapped, sick, cost_reduction) ==
    [name |-> name, ctype |-> ctype, cost |-> cost, mana |-> mana,
     enters_tapped |-> enters_tapped, tapped |-> FALSE,
     summoning_sick |-> sick, cost_reduction |-> cost_reduction]

\* ------------------------------------------------------------- sequences
Range(s) == {s[i] : i \in 1..Len(s)}

\* list.remove(x): drops the first element equal to x.
Remove(s, x) ==
    LET I == {k \in 1..Len(s) : s[k] = x}
    IN IF I = {} THEN s
       ELSE LET i == CHOOSE k \in I : \A j \in I : k <= j
            IN SubSeq(s, 1, i - 1) \o SubSeq(s, i + 1, Len(s))

\* Every arrangement of the elements of a list.
RECURSIVE Arrangements(_)
Arrangements(s) ==
    IF s = <<>> THEN {<<>>}
    ELSE UNION {UNION {{<<x>> \o t : t \in Arrangements(rest)}
                          : rest \in {Remove(s, x)}}
                   : x \in Range(s)}

\* The multiset of the elements of a sequence.
BagOf(s) == [x \in Range(s) |-> Cardinality({i \in 1..Len(s) : s[i] = x})]

\* F applied to the value of e, which is evaluated once.
Bind(e, F(_)) == CHOOSE r \in {F(x) : x \in {e}} : TRUE

RECURSIVE SumSeq(_)
SumSeq(s) == IF s = <<>> THEN 0 ELSE Head(s) + SumSeq(Tail(s))

\* sum(d.values()) of a colour dictionary.
RECURSIVE SumOver(_, _)
SumOver(f, S) ==
    IF S = {} THEN 0
    ELSE LET c == CHOOSE x \in S : TRUE IN f[c] + SumOver(f, S \ {c})

SumValues(f) == SumOver(f, Colors)


\* ------------------------------------------------------------------ cards
\* CommanderRampV001.py build_deck: the dictionaries of the three card kinds.
Land == Card("Land", "land", 0, Mana("colorless", 1), FALSE, FALSE, NoMana)

Rock == Card("Rock", "rock", 2, Mana("colorless", 1), FALSE, FALSE, NoMana)

Filler == Card("Filler", "filler", 0, NoMana, FALSE, FALSE, NoMana)

\* CommanderRampV003.py __main__: the coloured cards of the example deck.
Swamp == Card("Swamp", "land", 0, Mana("black", 1), FALSE, FALSE, NoMana)

Temple == Card("Temple", "land", 0, Mana("black", 1), TRUE, FALSE, NoMana)

LlanowarElves == Card("Llanowar Elves", "dork", 1, Mana("green", 1), FALSE, TRUE, NoMana)

JetMedallion == Card("Jet Medallion", "reducer", 2, NoMana, FALSE, FALSE, Mana("black", 1))

\* for _ in range(n): deck.append(card); range of a negative n is empty.
RECURSIVE Copies(_, _)
Copies(card, n) == IF n <= 0 THEN <<>> ELSE <<card>> \o Copies(card, n - 1)

build_deck(lands, rocks, fillers) ==
    Copies(Land, lands) \o Copies(Rock, rocks) \o Copies(Filler, fillers)

\* Decks in the shape of the V003 example deck, scaled down.
DorkDeck ==
    Copies(Swamp, 7) \o Copies(LlanowarElves, 2)

ReducerDeck ==
    Copies(Temple, 6) \o Copies(JetMedallion, 2)

BuildDecks ==
    {build_deck(6, 2, 0), build_deck(8, 0, 0), build_deck(1, 0, 7),
     build_deck(1, 0, 9), build_deck(0, 0, 8), build_deck(3, 0, 0),
     build_deck(0, 0, 0)}

Decks == BuildDecks \cup {DorkDeck, ReducerDeck}

ColorlessCosts == {Mana("colorless", 1), Mana("colorless", 2)}

Costs ==
    ColorlessCosts \cup
    {[colorless |-> 2, black |-> 1, green |-> 0],
     [colorless |-> 0, black |-> 1, green |-> 1]}

\* ------------------------------------------------- CommanderRampV004.py cards
\* Land, ConditionalLand, ManaRock, ManaDork and plain Card objects.  A
\* ManaDork's summoning_sick flag is mutable; it is kept per object in the
\* variable summoning_sick.
V4Land(name, produces, enters_tapped) ==
    [name |-> name, class |-> "Land", produces |-> produces,
     enters_tapped |-> enters_tapped, condition |-> "None", cost |-> 0]

V4ConditionalLand(name, produces, condition) ==
    [name |-> name, class |-> "ConditionalLand", produces |-> produces,
     enters_tapped |-> FALSE, condition |-> condition, cost |-> 0]

V4ManaRock(name, cost, produces) ==
    [name |-> name, class |-> "ManaRock", produces |-> produces,
     enters_tapped |-> FALSE, condition |-> "None", cost |-> cost]

V4ManaDork(name, cost, produces) ==
    [name |-> name, class |-> "ManaDork", produces |-> produces,
     enters_tapped |-> FALSE, condition |-> "None", cost |-> cost]

V4Card(name) ==
    [name |-> name, class |-> "Card", produces |-> {},
     enters_tapped |-> FALSE, condition |-> "None", cost |-> 0]

Mountain == V4Land("Mountain", {"R"}, FALSE)

V4Swamp == V4Land("Swamp", {"B"}, FALSE)

MountainCheckLand == V4ConditionalLand("MountainCheckLand", {"R"}, "has_mountain")

Signet == V4ManaRock("Signet", 2, {"R", "B"})

LeadMyr == V4ManaDork("Lead Myr", 1, {"B"})

Other == V4Card("Other")

\* build_deck of V004, scaled down: lands with a conditional land, lands
\* with a rock and the one dork, and lands with two rocks.
V4Decks ==
    {<<Mountain, MountainCheckLand>> \o Copies(Other, 6),
     Copies(V4Swamp, 6) \o <<Signet, LeadMyr>>,
     Copies(V4Swamp, 6) \o Copies(Signet, 2)}

V4Costs == {2, 3}

\* random.shuffle: every arrangement of the list can come out.  The
\* arrangements depend on the cards of the list only, and are tabled once for
\* the decks of the model.
ShuffleTable == {<<BagOf(d), Arrangements(d)>> : d \in Decks \cup V4Decks}

shuffle(s) == (CHOOSE entry \in ShuffleTable : entry[1] = BagOf(s))[2]

\* ------------------------------------------------------------------ state
VARIABLES
    version,        \* which revision of the script runs
    deck,           \* run_simulation's deck: the shared template
    commander_cost, \* the commander's cost, colour -> amount
    max_turns,      \* play_until_commander's max_turns
    trials,         \* run_simulation's trials
    pc,             \* where run_simulation / play_until_commander stands
    done,           \* iterations of "for _ in range(trials)" completed
    results,        \* run_simulation's results list
    turn_cast,      \* what play_until_commander returned: <<turn>>, or None
    output,         \* what run_simulation returned
    turn,           \* Game.turn
    game_deck,      \* Game.deck: the library, drawn from its end
    hand,           \* Game.hand
    battlefield,    \* Game.battlefield: <<card, turn_played>> pairs
    lands_played,   \* Game.lands_played
    mana_sources,   \* V004 simulate_game: mana_sources
    summoning_sick  \* V004: the summoning_sick attribute of each ManaDork

vars ==
    <<version, deck, commander_cost, max_turns, trials, pc, done, results,
      turn_cast, output, turn, game_deck, hand, battlefield, lands_played,
      mana_sources, summoning_sick>>

\* What the V001 - V003 scripts never write.
config == <<version, deck, commander_cost, max_turns, trials, summoning_sick>>

game == <<turn, game_deck, hand, battlefield, lands_played, mana_sources>>

harness == <<done, results, output>>

\* ------------------------------------------------------------ Card methods
\* Mutant: a dork taps on the turn it enters (>= for >).
can_produce_mana_no_sickness(card, turn_played, current_turn) ==
    IF card.ctype = "land"
        THEN ~(card.enters_tapped /\ turn_played = current_turn)
    ELSE IF card.ctype = "rock" THEN TRUE
    ELSE IF card.ctype = "dork" THEN current_turn >= turn_played
    ELSE FALSE

\* Mutant: a land taps only on the turn it enters.
can_produce_mana_entry_turn_only(card, turn_played, current_turn) ==
    IF card.ctype = "land"
        THEN ~card.enters_tapped /\ turn_played = current_turn
    ELSE IF card.ctype = "rock" THEN TRUE
    ELSE IF card.ctype = "dork" THEN current_turn > turn_played
    ELSE FALSE

\* Mutant: every land is tapped on the turn it enters.
can_produce_mana_lands_lag(card, turn_played, current_turn) ==
    IF card.ctype = "land" THEN turn_played # current_turn
    ELSE IF card.ctype = "rock" THEN TRUE
    ELSE IF card.ctype = "dork" THEN current_turn > turn_played
    ELSE FALSE

can_produce_mana(card, turn_played, current_turn) ==
    IF card.ctype = "land"
        THEN ~(card.enters_tapped /\ turn_played = current_turn)
    ELSE IF card.ctype = "rock" THEN TRUE
    ELSE IF card.ctype = "dork" THEN current_turn > turn_played
    ELSE FALSE

produce_mana(card) == card.mana

\* tapped_unless_mountain: reads c.card_type and c.subtypes of the cards of
\* the battlefield; a card without them raises AttributeError.
tapped_unless_mountain(bf) ==
    IF \E i \in 1..Len(bf) : "card_type" \notin DOMAIN bf[i]
        THEN [raised |-> TRUE, value |-> FALSE]
        ELSE [raised |-> FALSE,
              value |-> \E i \in 1..Len(bf) :
                           /\ bf[i].card_type = "land"
                           /\ "subtypes" \in DOMAIN bf[i]
                           /\ "Mountain" \in bf[i].subtypes]

\* Card.enters_battlefield: reads self.card_type and
\* self.enters_tapped_condition.  Reading an attribute that the object does
\* not have raises AttributeError; otherwise the new value of self.tapped.
enters_battlefield(card, bf) ==
    IF "card_type" \notin DOMAIN card
        THEN [raised |-> TRUE, tapped |-> card.tapped]
    ELSE IF card.card_type # "land"
        THEN [raised |-> FALSE, tapped |-> card.tapped]
    ELSE IF "enters_tapped_condition" \notin DOMAIN card
        THEN [raised |-> TRUE, tapped |-> card.tapped]
    ELSE IF card.enters_tapped_condition = "tapped_unless_mountain"
        THEN [raised |-> tapped_unless_mountain(bf).raised,
              tapped |-> ~tapped_unless_mountain(bf).value]
    ELSE [raised |-> FALSE, tapped |-> FALSE]

AddMana(total, m) == [c \in Colors |-> total[c] + m[c]]

\* ------------------------------------------------------------ Game methods
\* available_mana on a battlefield bf in turn t: the loop over the pairs.
RECURSIVE ManaFrom(_, _, _)
ManaFrom(bf, t, total) ==
    IF bf = <<>> THEN total
    ELSE LET card == Head(bf)[1]
             played_turn == Head(bf)[2]
         IN Bind(IF can_produce_mana(card, played_turn, t)
                     THEN AddMana(total, produce_mana(card))
                     ELSE total,
                 LAMBDA next : ManaFrom(Tail(bf), t, next))

available_mana(bf, t) == ManaFrom(bf, t, NoMana)

can_pay_cost(bf, t, cost) == SumValues(available_mana(bf, t)) >= cost

RECURSIVE ReductionsFrom(_, _)
ReductionsFrom(bf, reductions) ==
    IF bf = <<>> THEN reductions
    ELSE Bind(AddMana(reductions, Head(bf)[1].cost_reduction),
              LAMBDA next : ReductionsFrom(Tail(bf), next))

Max(a, b) == IF a >= b THEN a ELSE b

\* Mutant: the reduction is subtracted without the max(0, ...).
effective_cost_unclamped(bf, cost) ==
    Bind(ReductionsFrom(bf, NoMana), LAMBDA reductions :
        [color \in Colors |-> cost[color] - reductions[color]])

\* can_cast_commander, "Apply reductions".
effective_cost(bf, cost) ==
    Bind(ReductionsFrom(bf, NoMana), LAMBDA reductions :
        [color \in Colors |-> Max(0, cost[color] - reductions[color])])

\* Mutant: the coloured requirements are not checked, only the total.
can_cast_commander_total_only(bf, t, cost) ==
    SumValues(available_mana(bf, t)) >= SumValues(effective_cost(bf, cost))

can_cast_commander(bf, t, cost) ==
    Bind(<<effective_cost(bf, cost), available_mana(bf, t)>>, LAMBDA a :
    LET eff == a[1]
        mana_pool == a[2]
    IN IF \E color \in Colors : color # "colorless" /\ mana_pool[color] < eff[color]
           THEN FALSE
           ELSE SumValues(mana_pool) >= SumValues(eff))

Least(I) == IF I = {} THEN 0 ELSE CHOOSE i \in I : \A j \in I : i <= j

\* Mutant: the played land stays in the hand (hand.remove forgotten).
play_land_keeps_card(h, bf, t, lp) ==
    LET i == Least({k \in 1..Len(h) : h[k].ctype = "land"})
    IN IF lp = 0 /\ i # 0
           THEN [hand |-> h, battlefield |-> Append(bf, <<h[i], t>>),
                 lands_played |-> 1, ret |-> TRUE]
           ELSE [hand |-> h, battlefield |-> bf, lands_played |-> lp, ret |-> FALSE]

\* Mutant: lands_played is not tested, so a second call in the turn plays
\* another land.
play_land_unguarded(h, bf, t, lp) ==
    LET i == Least({k \in 1..Len(h) : h[k].ctype = "land"})
    IN IF i # 0
           THEN [hand |-> Remove(h, h[i]),
                 battlefield |-> Append(bf, <<h[i], t>>),
                 lands_played |-> 1, ret |-> TRUE]
           ELSE [hand |-> h, battlefield |-> bf, lands_played |-> lp, ret |-> FALSE]

\* Mutant: the land played is the last one of the hand.
play_land_last_land(h, bf, t, lp) ==
    LET L == {k \in 1..Len(h) : h[k].ctype = "land"}
    IN IF lp = 0 /\ L # {}
           THEN LET i == CHOOSE k \in L : \A j \in L : j <= k
                IN [hand |-> SubSeq(h, 1, i - 1) \o SubSeq(h, i + 1, Len(h)),
                    battlefield |-> Append(bf, <<h[i], t>>),
                    lands_played |-> 1, ret |-> TRUE]
           ELSE [hand |-> h, battlefield |-> bf, lands_played |-> lp, ret |-> FALSE]

\* Game.play_land: what it leaves in the hand, the battlefield and
\* lands_played, and what it returns.
play_land(h, bf, t, lp) ==
    LET i == Least({k \in 1..Len(h) : h[k].ctype = "land"})
    IN IF lp = 0 /\ i # 0
           THEN [hand |-> Remove(h, h[i]),
                 battlefield |-> Append(bf, <<h[i], t>>),
                 lands_played |-> 1, ret |-> TRUE]
           ELSE [hand |-> h, battlefield |-> bf, lands_played |-> lp, ret |-> FALSE]

\* Mutant: the mana of a turn pays for one deployment only.
play_permanents_once(h, bf, t) ==
    LET i == Least({k \in 1..Len(h) :
                       /\ h[k].ctype \in {"rock", "dork", "reducer"}
                       /\ can_pay_cost(bf, t, h[k].cost)})
        spent == \E e \in 1..Len(bf) : bf[e][2] = t /\ bf[e][1].ctype # "land"
    IN IF i # 0 /\ ~spent
           THEN [hand |-> Remove(h, h[i]),
                 battlefield |-> Append(bf, <<h[i], t>>), played |-> TRUE]
           ELSE [hand |-> h, battlefield |-> bf, played |-> FALSE]

\* Game.play_permanents, one pass of "while played": the first card of the
\* hand that is a rock, dork or reducer and can be paid for is deployed.
play_permanents(h, bf, t) ==
    LET i == Least({k \in 1..Len(h) :
                       /\ h[k].ctype \in {"rock", "dork", "reducer"}
                       /\ can_pay_cost(bf, t, h[k].cost)})
    IN IF i # 0
           THEN [hand |-> Remove(h, h[i]),
                 battlefield |-> Append(bf, <<h[i], t>>), played |-> TRUE]
           ELSE [hand |-> h, battlefield |-> bf, played |-> FALSE]

\* Mutant: the card drawn is the one at the front of the list.
draw_from_bottom(d, h) ==
    IF d # <<>>
        THEN [deck |-> Tail(d), hand |-> Append(h, Head(d))]
        ELSE [deck |-> d, hand |-> h]

\* Game.draw: pops the end of Game.deck into the hand, if there is one.
draw(d, h) ==
    IF d # <<>>
        THEN [deck |-> SubSeq(d, 1, Len(d) - 1), hand |-> Append(h, d[Len(d)])]
        ELSE [deck |-> d, hand |-> h]

\* Game.__init__ on one outcome s of the shuffle: seven pops from the end.
DealtHand(s) == [i \in 1..OpeningHand |-> s[Len(s) + 1 - i]]

DealtDeck(s) == SubSeq(s, 1, Len(s) - OpeningHand)


\* ------------------------------------------------------------------- Init
NoGame == <<>>

\* Python's None, and an int t, as values of one Optional[int] variable.
None == <<>>

Some(t) == <<t>>

\* "if turn_cast:": None and 0 are false.
Truthy(v) == v # None /\ v[1] # 0

NoOutput == [counts |-> <<>>, avg_turn |-> None, total_games |-> 0]

\* The ManaDork objects of a V004 deck; ManaDork.__init__ sets the flag.
Dorks(d) == {d[i].name : i \in {k \in 1..Len(d) : d[k].class = "ManaDork"}}

Init ==
    /\ version \in {"V001", "V003", "V004"}
    /\ deck \in (CASE version = "V001" -> BuildDecks
                   [] version = "V003" -> Decks
                   [] version = "V004" -> V4Decks)
    /\ commander_cost \in (CASE version = "V001" -> ColorlessCosts
                             [] version = "V003" -> Costs
                             [] version = "V004" -> V4Costs)
    /\ max_turns \in 0..MaxTurns
    /\ trials \in 0..MaxTrials
    /\ pc = IF version = "V004" THEN "run_simulations" ELSE "run_simulation"
    /\ mana_sources = <<>>
    /\ summoning_sick =
          IF version = "V004" THEN [n \in Dorks(deck) |-> TRUE] ELSE <<>>
    /\ done = 0
    /\ results = <<>>
    /\ turn_cast = None
    /\ output = NoOutput
    /\ turn = 0
    /\ game_deck = <<>>
    /\ hand = <<>>
    /\ battlefield = <<>>
    /\ lands_played = 0

\* ---------------------------------------------------------------- actions
\* game = Game(deck): Game.__init__.  Popping an empty list raises IndexError.
NewGame ==
    /\ pc = "run_simulation"
    /\ done < trials
    /\ IF Len(deck) < OpeningHand
           THEN /\ pc' = "IndexError"
                /\ UNCHANGED <<game, turn_cast>>
           ELSE /\ \E s \in shuffle(deck) :
                       /\ hand' = DealtHand(s)
                       /\ game_deck' = DealtDeck(s)
                /\ turn' = 0
                /\ battlefield' = <<>>
                /\ lands_played' = 0
                /\ turn_cast' = None
                /\ pc' = "play_until_commander"
                /\ UNCHANGED mana_sources
    /\ UNCHANGED <<config, harness>>

\* Mutant: the loop test lets one turn too many through (<= for <).
loop_test_off_by_one(t, limit) == t <= limit

\* "while self.turn < max_turns"
loop_test(t, limit) == t < limit

\* Mutant: the card drawn is any card of the deck list, not its end.
StartTurn_draws_any ==
    /\ pc = "play_until_commander"
    /\ loop_test(turn, max_turns)
    /\ turn' = turn + 1
    /\ lands_played' = 0
    /\ IF game_deck = <<>>
           THEN UNCHANGED <<game_deck, hand>>
           ELSE \E i \in 1..Len(game_deck) :
                   /\ game_deck' = [k \in 1..(Len(game_deck) - 1) |->
                                       IF k < i THEN game_deck[k] ELSE game_deck[k + 1]]
                   /\ hand' = Append(hand, game_deck[i])
    /\ pc' = "play_land"
    /\ UNCHANGED <<config, harness, turn_cast, battlefield, mana_sources>>

\* play_until_commander: the loop test, then turn += 1, lands_played = 0, draw().
StartTurn ==
    /\ pc = "play_until_commander"
    /\ loop_test(turn, max_turns)
    /\ turn' = turn + 1
    /\ lands_played' = 0
    /\ \E d \in {draw(game_deck, hand)} :
          /\ game_deck' = d.deck
          /\ hand' = d.hand
    /\ pc' = "play_land"
    /\ UNCHANGED <<config, harness, turn_cast, battlefield, mana_sources>>

\* play_until_commander: the loop ends without a cast, return None.
TimeOut ==
    /\ pc = "play_until_commander"
    /\ ~loop_test(turn, max_turns)
    /\ turn_cast' = None
    /\ pc' = "returned"
    /\ UNCHANGED <<config, harness, game>>

PlayLand ==
    /\ pc = "play_land"
    /\ \E r \in {play_land(hand, battlefield, turn, lands_played)} :
          /\ hand' = r.hand
          /\ battlefield' = r.battlefield
          /\ lands_played' = r.lands_played
    /\ pc' = "play_permanents"
    /\ UNCHANGED <<config, harness, turn_cast, turn, game_deck, mana_sources>>

\* One pass of the while loop of play_permanents; the pass that plays
\* nothing ends the loop.
PlayPermanents ==
    /\ pc = "play_permanents"
    /\ \E r \in {play_permanents(hand, battlefield, turn)} :
          /\ hand' = r.hand
          /\ battlefield' = r.battlefield
          /\ pc' = IF r.played THEN "play_permanents" ELSE "can_cast_commander"
    /\ UNCHANGED <<config, harness, turn_cast, turn, game_deck, lands_played,
                   mana_sources>>

\* Mutant: the engine plays on after a turn at which the commander can be
\* cast, unless it was the last turn.
CheckCommander_plays_on ==
    /\ pc = "can_cast_commander"
    /\ IF can_cast_commander(battlefield, turn, commander_cost) /\ turn = max_turns
           THEN /\ turn_cast' = Some(turn)
                /\ pc' = "returned"
           ELSE /\ turn_cast' = turn_cast
                /\ pc' = "play_until_commander"
    /\ UNCHANGED <<config, harness, game>>

\* if self.can_cast_commander(commander_cost): return self.turn
CheckCommander ==
    /\ pc = "can_cast_commander"
    /\ IF can_cast_commander(battlefield, turn, commander_cost)
           THEN /\ turn_cast' = Some(turn)
                /\ pc' = "returned"
           ELSE /\ turn_cast' = turn_cast
                /\ pc' = "play_until_commander"
    /\ UNCHANGED <<config, harness, game>>

\* The function play_land(card, battlefield) of V003, called by a script on
\* a card of its deck and a battlefield list of its own: enters_battlefield,
\* then battlefield.append(card).
PlayLandFunction ==
    /\ version = "V003"
    /\ pc = "run_simulation"
    /\ done = 0
    /\ \E i \in 1..Len(deck) :
          /\ deck[i].ctype = "land"
          /\ \E r \in {enters_battlefield(deck[i], <<>>)} :
                IF r.raised
                    THEN /\ pc' = "AttributeError"
                         /\ battlefield' = battlefield
                    ELSE /\ pc' = pc
                         /\ battlefield' = <<[deck[i] EXCEPT !.tapped = r.tapped]>>
    /\ UNCHANGED <<config, harness, turn_cast, turn, game_deck, hand,
                   lands_played, mana_sources>>

\* run_simulation: if turn_cast: results.append(turn_cast); the Game of
\* this iteration is dropped.
Record ==
    /\ pc = "returned"
    /\ results' = IF Truthy(turn_cast)
                      THEN Append(results, turn_cast[1]) ELSE results
    /\ done' = done + 1
    /\ pc' = "run_simulation"
    /\ turn' = 0
    /\ game_deck' = NoGame
    /\ hand' = NoGame
    /\ battlefield' = NoGame
    /\ lands_played' = 0
    /\ UNCHANGED <<config, output, turn_cast, mana_sources>>

\* Counter(results)
Counter(rs) ==
    [t \in Range(rs) |-> Cardinality({i \in 1..Len(rs) : rs[i] = t})]

\* V003 run_simulation: avg_turn = sum(results) / len(results) if results
\* else None.  The quotient is kept as the pair <<sum, len>>.
avg_turn_V003(rs) ==
    [raised |-> FALSE,
     value |-> IF rs # <<>> THEN <<SumSeq(rs), Len(rs)>> ELSE None]

\* V001 / V002 run_simulation: avg_turn = sum(results) / len(results);
\* dividing by zero raises ZeroDivisionError.
avg_turn_V001(rs) ==
    IF Len(rs) = 0 THEN [raised |-> TRUE, value |-> None]
    ELSE [raised |-> FALSE, value |-> <<SumSeq(rs), Len(rs)>>]

\* run_simulation after its loop: counts, avg_turn, the return.
Aggregate ==
    /\ pc = "run_simulation"
    /\ ~(done < trials)
    /\ LET avg_turn == IF version = "V001" THEN avg_turn_V001(results)
                       ELSE avg_turn_V003(results)
       IN IF avg_turn.raised
              THEN /\ pc' = "ZeroDivisionError"
                   /\ output' = output
              ELSE /\ pc' = "done"
                   /\ output' = [counts |-> Counter(results),
                                 avg_turn |-> avg_turn.value,
                                 total_games |-> Len(results)]
    /\ UNCHANGED <<config, game, done, results, turn_cast>>

\* ------------------------------------------- CommanderRampV004.py
IsLand(card) == card.class \in {"Land", "ConditionalLand"}

has_mountain(bf) == \E i \in 1..Len(bf) : IsLand(bf[i]) /\ "R" \in bf[i].produces

\* Land.play / ConditionalLand.play: TRUE when the land enters tapped.
play(card, bf, t) ==
    IF card.class = "ConditionalLand"
        THEN IF card.condition # "None" /\ has_mountain(bf) THEN FALSE ELSE TRUE
        ELSE card.enters_tapped

\* simulate_game, "Draw": library.pop(0) goes to the hand.
V4Draw(g) ==
    IF g.library # <<>>
        THEN [g EXCEPT !.hand = Append(g.hand, Head(g.library)),
                       !.library = Tail(g.library)]
        ELSE g

\* simulate_game, "Play a land if possible": the first Land of the hand.
V4PlayLand(g) ==
    LET i == Least({k \in 1..Len(g.hand) : IsLand(g.hand[k])})
    IN IF i = 0 THEN g
       ELSE LET card == g.hand[i]
                tapped == play(card, g.battlefield, g.turn)
            IN [g EXCEPT !.battlefield = Append(g.battlefield, card),
                         !.mana_sources = IF ~tapped
                                              THEN Append(g.mana_sources, card)
                                              ELSE g.mana_sources,
                         !.hand = Remove(g.hand, card)]

\* simulate_game, "Cast mana rocks/dorks if possible": the while loop, with
\* mana_available paid down by each cost.
RECURSIVE V4Deploy(_, _)
V4Deploy(g0, mana0) ==
    Bind(<<g0, mana0>>, LAMBDA a :
        LET g == a[1]
            mana_available == a[2]
            i == Least({k \in 1..Len(g.hand) :
                           /\ g.hand[k].class \in {"ManaRock", "ManaDork"}
                           /\ mana_available >= g.hand[k].cost})
        IN IF i = 0 THEN g
           ELSE LET card == g.hand[i]
                IN V4Deploy(
                     IF card.class = "ManaRock"
                         THEN [g EXCEPT !.battlefield = Append(g.battlefield, card),
                                        !.mana_sources = Append(g.mana_sources, card),
                                        !.hand = Remove(g.hand, card)]
                         ELSE [g EXCEPT !.battlefield = Append(g.battlefield, card),
                                        !.sick = [g.sick EXCEPT ![card.name] = TRUE],
                                        !.hand = Remove(g.hand, card)],
                     mana_available - card.cost))

\* simulate_game, "Calculate total mana".
V4TotalMana(bf, sick) ==
    Cardinality({i \in 1..Len(bf) : IsLand(bf[i])})
    + Cardinality({i \in 1..Len(bf) : bf[i].class = "ManaRock"})
    + Cardinality({i \in 1..Len(bf) :
                      bf[i].class = "ManaDork" /\ ~sick[bf[i].name]})

\* simulate_game, "Remove summoning sickness".
V4Unsick(bf, sick) ==
    [n \in DOMAIN sick |->
        IF \E i \in 1..Len(bf) : bf[i].class = "ManaDork" /\ bf[i].name = n
            THEN FALSE ELSE sick[n]]

\* One iteration of "while turn < max_turns", up to the commander test.
V4TurnBody(g) ==
    Bind(V4Draw([g EXCEPT !.turn = g.turn + 1]), LAMBDA drawn :
    Bind(V4PlayLand(drawn), LAMBDA g1 :
    Bind(V4Deploy(g1, Len(g1.mana_sources)), LAMBDA g2 :
        [g2 EXCEPT !.total_mana = V4TotalMana(g2.battlefield, g2.sick),
                   !.sick = V4Unsick(g2.battlefield, g2.sick)])))

V4Game ==
    [turn |-> turn, hand |-> hand, library |-> game_deck,
     battlefield |-> battlefield, mana_sources |-> mana_sources,
     sick |-> summoning_sick, total_mana |-> 0]

\* simulate_game up to its loop: random.shuffle(deck) shuffles the caller's
\* list in place; hand and library are slices of it.
V4Setup ==
    /\ version = "V004"
    /\ pc = "run_simulations"
    /\ done < trials
    /\ \E s \in shuffle(deck) :
           /\ deck' = s
           /\ hand' = SubSeq(s, 1, OpeningHand)
           /\ game_deck' = SubSeq(s, OpeningHand + 1, Len(s))
    /\ battlefield' = <<>>
    /\ mana_sources' = <<>>
    /\ turn' = 0
    /\ turn_cast' = None
    /\ pc' = "simulate_game"
    /\ UNCHANGED <<version, commander_cost, max_turns, trials, harness,
                   lands_played, summoning_sick>>

\* One turn of simulate_game; "return turn" when the commander can be cast.
V4Turn ==
    /\ pc = "simulate_game"
    /\ turn < max_turns
    /\ \E g \in {V4TurnBody(V4Game)} :
          /\ turn' = g.turn
          /\ hand' = g.hand
          /\ game_deck' = g.library
          /\ battlefield' = g.battlefield
          /\ mana_sources' = g.mana_sources
          /\ summoning_sick' = g.sick
          /\ IF g.total_mana >= commander_cost
                 THEN /\ turn_cast' = Some(g.turn)
                      /\ pc' = "v4_returned"
                 ELSE /\ turn_cast' = turn_cast
                      /\ pc' = "simulate_game"
    /\ UNCHANGED <<version, deck, commander_cost, max_turns, trials, harness,
                   lands_played>>

\* simulate_game: the loop ends, "return None".
V4TimeOut ==
    /\ pc = "simulate_game"
    /\ ~(turn < max_turns)
    /\ turn_cast' = None
    /\ pc' = "v4_returned"
    /\ UNCHANGED <<config, harness, game>>

\* run_simulations: if turn is not None: results.append(turn); the locals
\* of simulate_game are gone.
V4Record ==
    /\ pc = "v4_returned"
    /\ results' = IF turn_cast # None THEN Append(results, turn_cast[1])
                  ELSE results
    /\ done' = done + 1
    /\ pc' = "run_simulations"
    /\ turn' = 0
    /\ game_deck' = NoGame
    /\ hand' = NoGame
    /\ battlefield' = NoGame
    /\ mana_sources' = NoGame
    /\ UNCHANGED <<config, output, turn_cast, lands_played>>

\* run_simulations after its loop: distribution and total.
V4Report ==
    /\ version = "V004"
    /\ pc = "run_simulations"
    /\ ~(done < trials)
    /\ output' = [counts |-> Counter(results), avg_turn |-> None,
                  total_games |-> Len(results)]
    /\ pc' = "done"
    /\ UNCHANGED <<config, game, done, results, turn_cast>>

Next ==
    \/ NewGame
    \/ StartTurn
    \/ TimeOut
    \/ PlayLand
    \/ PlayPermanents
    \/ CheckCommander
    \/ Record
    \/ Aggregate
    \/ PlayLandFunction
    \/ V4Setup
    \/ V4Turn
    \/ V4TimeOut
    \/ V4Record
    \/ V4Report

Spec == Init /\ [][Next]_vars

\* The script runs on one thread and every statement is followed by the
\* next: a step that can be taken is taken.
FairSpec == Spec /\ WF_vars(Next)

\* ================================================================ claims
\* A trial is in progress: a Game (V001 - V003) or the locals of
\* simulate_game (V004) exist.
InGameV3 ==
    pc \in {"play_until_commander", "play_land", "play_permanents",
            "can_cast_commander", "returned"}

InGameV4 == pc \in {"simulate_game", "v4_returned"}

InGame == InGameV3 \/ InGameV4

\* The cards on the battlefield, without the turn they entered.
BattlefieldCards ==
    IF InGameV3 THEN [i \in 1..Len(battlefield) |-> battlefield[i][1]]
    ELSE battlefield

\* C1: Conservation.  In every trial, after construction and after every
\* step and turn, |library| + |hand| + |battlefield| is the size of the deck
\* template and the cards of the three zones are, as a multiset, the cards
\* of the template.
Conservation ==
    InGame =>
        /\ Len(game_deck) + Len(hand) + Len(battlefield) = Len(deck)
        /\ BagOf(game_deck \o hand \o BattlefieldCards) = BagOf(deck)

\* C1 witness: a turn boundary after two turns, with cards drawn and played.
ConservationWitness ==
    /\ pc = "play_until_commander"
    /\ turn = 2
    /\ Len(battlefield) >= 3
    /\ game_deck = <<>>

IsLandCard(card) ==
    IF version = "V004" THEN IsLand(card) ELSE card.ctype = "land"

LandsIn(s) == Cardinality({i \in 1..Len(s) : IsLandCard(s[i])})

\* C2: Land cap.  At most one land enters the battlefield per turn: the
\* lands on the battlefield never outnumber the turns taken, no two lands of
\* a Game have the same entry turn, lands_played is 1 exactly when a land
\* entered this turn, and once it is 1 another play_land in the same turn
\* returns False and moves nothing, however many lands the hand holds.
LandCap ==
    InGame =>
        /\ LandsIn(BattlefieldCards) <= turn
        /\ InGameV3 =>
             /\ \A i, j \in 1..Len(battlefield) :
                    /\ battlefield[i][1].ctype = "land"
                    /\ battlefield[j][1].ctype = "land"
                    /\ battlefield[i][2] = battlefield[j][2]
                    => i = j
             /\ pc \in {"play_permanents", "can_cast_commander"} =>
                    (lands_played = 1 <=>
                        \E i \in 1..Len(battlefield) :
                            /\ battlefield[i][1].ctype = "land"
                            /\ battlefield[i][2] = turn)
             /\ lands_played = 1 =>
                    play_land(hand, battlefield, turn, lands_played) =
                        [hand |-> hand, battlefield |-> battlefield,
                         lands_played |-> 1, ret |-> FALSE]

\* C2 witness: a land was played this turn and two more are in the hand.
LandCapWitness ==
    /\ pc = "play_permanents"
    /\ lands_played = 1
    /\ LandsIn(hand) >= 2
    /\ turn = 2

\* The battlefield without the entries in the index set I.
Without(bf, I) ==
    LET keep == {i \in 1..Len(bf) : i \notin I}
        RECURSIVE Pick(_)
        Pick(k) == IF k > Len(bf) THEN <<>>
                   ELSE IF k \in keep THEN <<bf[k]>> \o Pick(k + 1)
                   ELSE Pick(k + 1)
    IN Pick(1)

FreshDorks ==
    {i \in 1..Len(battlefield) :
        battlefield[i][1].ctype = "dork" /\ battlefield[i][2] = turn}

MatureDorks ==
    {i \in 1..Len(battlefield) :
        battlefield[i][1].ctype = "dork" /\ battlefield[i][2] < turn}

V4DorksIn(bf) == Cardinality({i \in 1..Len(bf) : bf[i].class = "ManaDork"})

V4RocksIn(bf) == Cardinality({i \in 1..Len(bf) : bf[i].class = "ManaRock"})

\* C3: Summoning sickness.  A dork that entered this turn adds nothing to
\* the mana that pays for further permanents or for the commander this turn
\* (the mana is what it is without that dork), and a dork that entered on an
\* earlier turn adds its mana.  In simulate_game the mana that pays for
\* permanents never counts a dork, and the total of a turn counts the lands,
\* the rocks and the dorks that were there before the turn.
SummoningSickness ==
    /\ InGameV3 =>
         /\ available_mana(battlefield, turn) =
                available_mana(Without(battlefield, FreshDorks), turn)
         /\ \A i \in MatureDorks :
                available_mana(battlefield, turn) =
                    AddMana(available_mana(Without(battlefield, {i}), turn),
                            battlefield[i][1].mana)
    /\ InGameV4 =>
         /\ \A i \in 1..Len(mana_sources) : mana_sources[i].class # "ManaDork"
         /\ (pc = "simulate_game" /\ turn < max_turns) =>
                LET g == V4TurnBody(V4Game)
                IN g.total_mana = LandsIn(g.battlefield) + V4RocksIn(g.battlefield)
                                    + V4DorksIn(battlefield)

\* C3 witness: at the commander test one dork entered this turn and one is
\* a turn old.
SummoningSicknessWitness ==
    /\ pc = "can_cast_commander"
    /\ FreshDorks # {}
    /\ MatureDorks # {}

\* A trial is running / has reached Cast or TimedOut.
TrialRunning ==
    pc \in {"play_until_commander", "play_land", "play_permanents",
            "can_cast_commander", "simulate_game"}

TrialEnded == pc \in {"returned", "v4_returned"}

Finished ==
    pc \in {"done", "IndexError", "ZeroDivisionError", "AttributeError"}

\* C4: Termination.  Whatever the deck and max_turns, the turn counter never
\* passes max_turns, every pass of the deployment loop that goes round again
\* has made the hand one card shorter (so a turn deploys at most the hand),
\* every running trial ends as Cast or TimedOut, and the run ends.
Termination ==
    /\ [](InGame => turn <= max_turns)
    /\ [][(pc = "play_permanents" /\ pc' = "play_permanents")
            => Len(hand') = Len(hand) - 1]_vars
    /\ (TrialRunning ~> TrialEnded)
    /\ <>Finished

\* C4 witness: a deck without lands has timed out after max_turns turns.
TerminationWitness ==
    /\ pc = "returned"
    /\ turn_cast = None
    /\ max_turns = 3
    /\ turn = max_turns
    /\ \A i \in 1..Len(deck) : deck[i].ctype # "land"

\* The battlefield as it stood at the commander test of turn t: nothing
\* leaves it and every entry carries its turn.
BattlefieldAt(t) == SelectSeq(battlefield, LAMBDA e : e[2] <= t)

CastableAt(t) == can_cast_commander(BattlefieldAt(t), t, commander_cost)

OutcomeV3 ==
    /\ pc = "returned" /\ turn_cast # None =>
         /\ turn_cast = Some(turn)
         /\ turn \in 1..max_turns
         /\ CastableAt(turn)
         /\ \A t \in 1..(turn - 1) : ~CastableAt(t)
    /\ pc = "returned" /\ turn_cast = None =>
         /\ turn = max_turns
         /\ \A t \in 1..max_turns : ~CastableAt(t)
    /\ pc \in {"play_land", "play_permanents", "can_cast_commander"} =>
         /\ turn_cast = None
         /\ \A t \in 1..(turn - 1) : ~CastableAt(t)
    /\ pc = "play_until_commander" =>
         /\ turn_cast = None
         /\ \A t \in 1..turn : ~CastableAt(t)

OutcomeV4 ==
    /\ pc = "v4_returned" /\ turn_cast # None =>
         /\ turn_cast = Some(turn)
         /\ turn \in 1..max_turns
    /\ pc = "v4_returned" /\ turn_cast = None => turn = max_turns
    /\ pc = "simulate_game" =>
         /\ turn_cast = None
         /\ LandsIn(battlefield) + V4RocksIn(battlefield) < commander_cost

\* A turn is taken only by a running engine that has not cast and has turns
\* left; a turn of simulate_game returns exactly when its total pays.
TurnStep ==
    /\ turn' > turn =>
         /\ pc \in {"play_until_commander", "simulate_game"}
         /\ turn_cast = None
         /\ turn < max_turns
         /\ turn' = turn + 1
    /\ (pc = "simulate_game" /\ turn < max_turns) =>
         LET g == V4TurnBody(V4Game)
         IN IF g.total_mana >= commander_cost
                THEN pc' = "v4_returned" /\ turn_cast' = Some(turn + 1)
                ELSE pc' = "simulate_game" /\ turn_cast' = None
    /\ TrialEnded => turn' <= turn

\* C5: Turn Engine outcome.  A trial ends as Cast with turn t exactly when t
\* is the least turn of 1..max_turns at whose commander test (after that
\* turn's draw, land drop and deployment) the commander can be cast, and as
\* TimedOut exactly when there is no such turn; a Cast turn is in
\* 1..max_turns and no turn is taken after Cast.
TurnEngineOutcome ==
    /\ [](OutcomeV3 /\ OutcomeV4)
    /\ [][TurnStep]_vars

\* C5 witness: a cast on turn 3 of 3, after two turns that could not.
TurnEngineOutcomeWitness ==
    /\ pc = "returned"
    /\ turn_cast = Some(3)
    /\ max_turns = 3
    /\ Len(battlefield) >= 3

\* Commander costs: every amount up to MaxPip of every colour.
CostGrid == [Colors -> 0..MaxPip]

\* The entries of the battlefield that produce mana in turn t.
Producers(bf, t) ==
    {i \in 1..Len(bf) : can_produce_mana(bf[i][1], bf[i][2], t)}

totalMana(bf, t) ==
    [color \in Colors |->
        SumOver([i \in 1..Len(bf) |-> bf[i][1].mana[color]], Producers(bf, t))]

reduction(bf) ==
    [color \in Colors |->
        SumOver([i \in 1..Len(bf) |-> bf[i][1].cost_reduction[color]],
                1..Len(bf))]

effectiveCost(bf, cost) ==
    Bind(reduction(bf), LAMBDA red :
        [color \in Colors |->
            IF cost[color] > red[color] THEN cost[color] - red[color] ELSE 0])

ColorCheck(bf, t, cost) ==
    Bind(<<totalMana(bf, t), effectiveCost(bf, cost)>>, LAMBDA a :
        \A color \in Colors \ {"colorless"} : a[1][color] >= a[2][color])

TotalCheck(bf, t, cost) ==
    SumValues(totalMana(bf, t)) >= SumValues(effectiveCost(bf, cost))

\* C6: canCastCommander.  On every battlefield at which a Game makes the
\* commander test and for every commander cost, can_cast_commander is true
\* iff (c) every colour other than colorless has at least the effective cost
\* of that colour in the mana pool and (d) the total of the pool is at least
\* the total effective cost, the effective cost of a colour being
\* max(0, cost - reduction); a trial that returned a turn passed both checks
\* and one that went on to the next turn failed one of them.
CanCastCommander ==
    InGameV3 =>
        /\ pc = "can_cast_commander" =>
               \A cost \in CostGrid :
                   can_cast_commander(battlefield, turn, cost) <=>
                       /\ ColorCheck(battlefield, turn, cost)
                       /\ TotalCheck(battlefield, turn, cost)
        /\ (pc = "returned" /\ turn_cast # None) =>
               /\ ColorCheck(battlefield, turn, commander_cost)
               /\ TotalCheck(battlefield, turn, commander_cost)
        /\ (pc = "play_until_commander" /\ turn >= 1) =>
               ~(/\ ColorCheck(battlefield, turn, commander_cost)
                 /\ TotalCheck(battlefield, turn, commander_cost))

\* C6 witness: the commander test of this turn failed although the total
\* mana covers the total cost: a coloured requirement is not met.
CanCastCommanderWitness ==
    /\ pc = "play_until_commander"
    /\ turn >= 1
    /\ TotalCheck(battlefield, turn, commander_cost)
    /\ ~ColorCheck(battlefield, turn, commander_cost)

\* The colours some reducer on the battlefield reduces.
Targeted(bf) ==
    {color \in Colors :
        \E i \in 1..Len(bf) : bf[i][1].cost_reduction[color] > 0}

\* C7: Cost reduction.  For the reducers on any battlefield at which a Game
\* makes the commander test and any commander cost, the effective cost of
\* every colour is at least 0 and is the colour's own cost less the colour's
\* own reduction where that is positive (a surplus goes to no other colour
\* and not to the total), a colour no reducer on the battlefield targets
\* keeps its cost, and what is taken off a colour is never more than the
\* reducers on the battlefield give, whatever the hand and the library hold.
CostReduction ==
    pc \in {"can_cast_commander", "returned"} =>
        \E red \in {reduction(battlefield)} :
        \E free \in {Colors \ Targeted(battlefield)} :
        \A cost \in CostGrid :
            \E eff \in {effective_cost(battlefield, cost)} :
               /\ \A color \in Colors :
                      /\ eff[color] >= 0
                      /\ eff[color] >= cost[color] - red[color]
                      /\ eff[color] \in {0, cost[color] - red[color]}
                      /\ cost[color] - eff[color] <= red[color]
                      /\ color \in free => eff[color] = cost[color]
               /\ SumValues(eff) >= SumOver(cost, free)

\* C7 witness: two reducers of black are on the battlefield and the
\* commander asks for one black; the commander test has been made.
CostReductionWitness ==
    /\ pc = "returned"
    /\ reduction(battlefield)["black"] = 2
    /\ commander_cost["black"] = 1

\* C8 (as stated): when no trial succeeded, run_simulation ends without a
\* division fault and returns an empty distribution, None for the average
\* and 0 successful trials.
NoDataSignalled ==
    (version # "V004" /\ results = <<>>
        /\ pc \in {"done", "ZeroDivisionError"}) =>
        /\ pc = "done"
        /\ output = [counts |-> <<>>, avg_turn |-> None, total_games |-> 0]

\* A configuration the statement calls malformed: an empty deck, a
\* non-positive trial count, a non-positive max_turns.
Malformed == deck = <<>> \/ trials <= 0 \/ max_turns <= 0

\* C9 (as stated): a malformed configuration never gets past construction:
\* it is rejected with a configuration error, no trial state is built, no
\* turn is taken and nothing is recorded.
MalformedFailsFast ==
    Malformed =>
        /\ pc \in {"run_simulation", "run_simulations", "ConfigurationError"}
        /\ ~InGame
        /\ turn = 0
        /\ done = 0
        /\ results = <<>>
        /\ output = NoOutput

\* C10 (as stated): no step changes the deck template: neither the order
\* of its cards nor the summoning_sick flag of any of its cards.
TemplateNeverMutated ==
    [][deck' = deck /\ summoning_sick' = summoning_sick]_vars

\* A deck of Lands only, each entering untapped and producing 1 colorless,
\* run by V001 - V003 against a cost of colorless only.
AllLands ==
    /\ version \in {"V001", "V003"}
    /\ deck # <<>>
    /\ \A i \in 1..Len(deck) : deck[i] = Land
    /\ commander_cost = Mana("colorless", commander_cost["colorless"])

\* The turn the all-Lands deck casts on: k, when k turns are taken and the
\* deck has k Lands.
AllLandsTurn ==
    LET k == commander_cost["colorless"]
    IN IF k <= max_turns /\ k <= Len(deck) THEN Some(k) ELSE None

\* What the all-Lands deck gives, trial by trial and at the end of the run.
AllLandsOutcome ==
    /\ pc = "returned" => turn_cast = AllLandsTurn
    /\ \A i \in 1..Len(results) : Some(results[i]) = AllLandsTurn
    /\ pc = "run_simulation" => Len(results) = IF AllLandsTurn = None THEN 0 ELSE done
    /\ pc = "done" =>
           /\ output.total_games = IF AllLandsTurn = None THEN 0 ELSE trials
           /\ output.counts =
                  IF AllLandsTurn = None \/ trials = 0 THEN <<>>
                  ELSE (AllLandsTurn[1] :> trials)

\* C11 (as stated): with a deck of N Lands and a cost of k colorless every
\* trial runs without a fault and casts on exactly turn k when k <= max_turns
\* and k <= N, the distribution being {k: trials}; otherwise every trial
\* times out and the run ends with 0 successful trials.
AllLandsScenario ==
    AllLands =>
        /\ pc # "IndexError"
        /\ AllLandsOutcome

\* The part of C11 that the code keeps: a deck of at least seven Lands.
AllLandsDealt ==
    (AllLands /\ Len(deck) >= OpeningHand) =>
        /\ pc # "IndexError"
        /\ AllLandsOutcome

\* A deck of one Land and Fillers otherwise, run by V001 - V003 against a
\* cost of 1 colorless.
SingleLand ==
    /\ version \in {"V001", "V003"}
    /\ Cardinality({i \in 1..Len(deck) : deck[i] = Land}) = 1
    /\ \A i \in 1..Len(deck) : deck[i] \in {Land, Filler}
    /\ commander_cost = Mana("colorless", 1)

LandIn(s) == \E i \in 1..Len(s) : s[i] = Land

\* C12: with one Land among Fillers and a cost of 1 colorless, nothing is
\* cast while the Land is in the Library; the Land is played on the turn it
\* reaches the Hand (turn 1 from the opening hand) and the commander is cast
\* on that same turn; the trial times out exactly when the turns run out with
\* the Land still undrawn (or with no turn taken at all).
SingleLandScenario ==
    (SingleLand /\ InGameV3) =>
        /\ LandIn(game_deck) => battlefield = <<>> /\ ~Truthy(turn_cast)
        /\ LandIn(hand) => \/ turn = 0
                           \/ pc = "play_land"
        /\ (LandIn(hand) /\ turn > 1) =>
               hand[Len(hand)] = Land /\ Len(hand) = OpeningHand + turn
        /\ (pc = "play_until_commander" /\ turn >= 1) => LandIn(game_deck)
        /\ battlefield # <<>> =>
               /\ battlefield = << <<Land, turn>> >>
               /\ pc \in {"play_permanents", "can_cast_commander", "returned"}
        /\ pc = "returned" =>
               /\ Truthy(turn_cast) <=> battlefield # <<>>
               /\ Truthy(turn_cast) => turn_cast = Some(turn)
               /\ ~Truthy(turn_cast) =>
                      /\ turn_cast = None
                      /\ turn = max_turns
                      /\ LandIn(game_deck) \/ max_turns = 0

\* The Land is drawn on turn 3 and the commander is cast on turn 3.
SingleLandScenarioWitness ==
    /\ SingleLand
    /\ pc = "returned"
    /\ turn_cast = Some(3)
    /\ battlefield = << <<Land, 3>> >>
    /\ Len(hand) = OpeningHand + 2

IsPrefix(a, b) == Len(a) <= Len(b) /\ SubSeq(b, 1, Len(a)) = a

\* sum(totalMana.values()) at the commander check of turn t of this trial.
ManaAtCheck(t) == SumValues(available_mana(BattlefieldAt(t), t))

\* V001 - V003, at the commander check of a turn: the sums of the checks so
\* far never went down.
ManaNeverDropped ==
    (InGameV3 /\ pc = "can_cast_commander") =>
        \A t \in 1..(turn - 1) : ManaAtCheck(t + 1) >= ManaAtCheck(t)

\* V004: total_mana of a turn lies between the count of lands, rocks and
\* unsick dorks before the turn and that count after it, so that it is at
\* least the total_mana of the turn before.
V4ManaStep ==
    (pc = "simulate_game" /\ turn' = turn + 1) =>
        \E g \in {V4TurnBody(V4Game)} :
            /\ V4TotalMana(battlefield, summoning_sick) <= g.total_mana
            /\ g.total_mana <= V4TotalMana(battlefield', summoning_sick')

\* A permanent that could produce mana on a turn can on the next.
StaysUntapped ==
    \A i \in 1..Len(deck) : \A tp \in 1..MaxTurns : \A t \in tp..MaxTurns :
        can_produce_mana(deck[i], tp, t) => can_produce_mana(deck[i], tp, t + 1)

\* C13: within a trial the Battlefield only grows; the sum of the mana
\* counted at the commander check of a turn is at least the sum counted at
\* the check of the turn before; a permanent that could produce mana on a
\* turn can produce it on every later turn.
MonotonicMana ==
    [][/\ (InGame /\ InGame') => IsPrefix(battlefield, battlefield')
       /\ ManaNeverDropped'
       /\ version = "V004" => V4ManaStep
       /\ version # "V004" => StaysUntapped]_vars

\* The third commander check of a trial, with more mana at each check.
MonotonicManaWitness ==
    /\ InGameV3
    /\ pc = "can_cast_commander"
    /\ turn = 3
    /\ ManaAtCheck(3) > ManaAtCheck(2)
    /\ ManaAtCheck(2) > ManaAtCheck(1)
    /\ ManaAtCheck(1) > 0

\* The Game of a trial of V001 - V003 with the position of the engine in
\* play_until_commander and its return value.
TrialState ==
    [pc |-> pc, turn |-> turn, deck |-> game_deck, hand |-> hand,
     battlefield |-> battlefield, lands_played |-> lands_played,
     turn_cast |-> turn_cast]

\* The Game built from the outcome s of the shuffle.
TrialFrom(s) ==
    [pc |-> "play_until_commander", turn |-> 0, deck |-> DealtDeck(s),
     hand |-> DealtHand(s), battlefield |-> <<>>, lands_played |-> 0,
     turn_cast |-> None]

\* The one state that follows a state of a trial in progress.
TrialAfter(g) ==
    CASE g.pc = "play_until_commander" ->
             IF g.turn < max_turns
                 THEN Bind(draw(g.deck, g.hand), LAMBDA d :
                          [g EXCEPT !.pc = "play_land", !.turn = g.turn + 1,
                                    !.lands_played = 0, !.deck = d.deck,
                                    !.hand = d.hand])
                 ELSE [g EXCEPT !.pc = "returned", !.turn_cast = None]
      [] g.pc = "play_land" ->
             Bind(play_land(g.hand, g.battlefield, g.turn, g.lands_played),
                  LAMBDA r :
                      [g EXCEPT !.pc = "play_permanents", !.hand = r.hand,
                                !.battlefield = r.battlefield,
                                !.lands_played = r.lands_played])
      [] g.pc = "play_permanents" ->
             Bind(play_permanents(g.hand, g.battlefield, g.turn), LAMBDA r :
                      [g EXCEPT !.pc = IF r.played THEN "play_permanents"
                                       ELSE "can_cast_commander",
                                !.hand = r.hand, !.battlefield = r.battlefield])
      [] g.pc = "can_cast_commander" ->
             IF can_cast_commander(g.battlefield, g.turn, commander_cost)
                 THEN [g EXCEPT !.pc = "returned", !.turn_cast = Some(g.turn)]
                 ELSE [g EXCEPT !.pc = "play_until_commander"]

\* C14: in V001 - V003 the Game of a trial is the deal of the permutation
\* delivered by the shuffle; every state of the trial has one successor,
\* fixed by the state, the commander cost and max_turns; the results list
\* after the trial is fixed by the trial's return value, and the output by
\* the results list: with one trial, two runs given the same permutation
\* end with the same output.
Determinism ==
    [][version # "V004" =>
         /\ (pc = "run_simulation" /\ InGameV3') =>
                /\ \E s \in shuffle(deck) : TrialState' = TrialFrom(s)
                /\ UNCHANGED <<config, harness>>
         /\ (InGameV3 /\ pc # "returned") =>
                /\ TrialState' = TrialAfter(TrialState)
                /\ UNCHANGED <<config, harness>>
         /\ pc = "returned" =>
                /\ pc' = "run_simulation"
                /\ done' = done + 1
                /\ results' = IF turn_cast = None THEN results
                               ELSE Append(results, turn_cast[1])
                /\ UNCHANGED <<config, output>>
         /\ (pc = "run_simulation" /\ ~InGameV3' /\ trials = 1 /\ done = 1) =>
                /\ pc' \in {"done", "ZeroDivisionError"}
                /\ pc' = "done" =>
                       /\ results = <<>> =>
                              output' = [counts |-> <<>>, avg_turn |-> None,
                                         total_games |-> 0]
                       /\ results # <<>> =>
                              output' = [counts |-> (results[1] :> 1),
                                         avg_turn |-> <<results[1], 1>>,
                                         total_games |-> 1]
                /\ pc' = "ZeroDivisionError" =>
                       results = <<>> /\ version = "V001"
                /\ UNCHANGED <<config, done, results>>]_vars

\* A run of one trial that drew, played a land and cast on turn 2.
DeterminismWitness ==
    /\ version # "V004"
    /\ trials = 1
    /\ pc = "done"
    /\ output.total_games = 1
    /\ output.counts = (2 :> 1)

\* The distribution, the successful count and the trials left out, once the
\* harness is through: the distribution counts the recorded cast turns, its
\* counts add up to the successful count, and the trials run are the
\* recorded ones and the timed-out ones.
Tally ==
    /\ output.counts = Counter(results)
    /\ \A t \in DOMAIN output.counts : t \in 1..max_turns
    /\ SumOver(output.counts, DOMAIN output.counts) = output.total_games
    /\ output.total_games = Len(results)
    /\ done = trials
    /\ Len(results) <= done

\* sum(results) / len(results), as the pair <<sum, len>>.
Mean(rs) == <<SumSeq(rs), Len(rs)>>

\* C15 (as stated): after the harness has run its trials, the distribution
\* counts the Cast trials only, its counts add up to the successful count,
\* successful and timed-out trials add up to the trial count, and the
\* average is the arithmetic mean of the Cast turns.
HarnessAggregation ==
    pc = "done" =>
        /\ Tally
        /\ results # <<>> => output.avg_turn = Mean(results)

\* The part of C15 that the code keeps: the tally in every revision, the
\* mean in V001 - V003.
HarnessAggregationKept ==
    pc = "done" =>
        /\ Tally
        /\ (results # <<>> /\ version # "V004") =>
               output.avg_turn = Mean(results)
        /\ version = "V004" => output.avg_turn = None

Reverse(s) == [i \in 1..Len(s) |-> s[Len(s) + 1 - i]]

\* The order in which the cards of a freshly shuffled list p are dealt:
\* V001 - V003 pop the end of the list, V004 slices it from the front.
DealOrder(p) == IF version = "V004" THEN p ELSE Reverse(p)

\* The zones of a trial just constructed from the outcome p of the shuffle.
Constructed(p) ==
    /\ hand = SubSeq(DealOrder(p), 1, OpeningHand)
    /\ DealOrder(game_deck) = SubSeq(DealOrder(p), OpeningHand + 1, Len(p))
    /\ Len(game_deck) = Len(deck) - OpeningHand
    /\ battlefield = <<>>
    /\ turn = 0
    /\ lands_played = 0

\* A step that constructs a trial.
Constructs ==
    /\ pc \in {"run_simulation", "run_simulations"}
    /\ InGame'

\* C16 (as stated): a trial constructed from a template of N cards has the
\* first 7 cards of the permuted deck in Hand and the other N - 7 in Library,
\* an empty Battlefield, turn 0 and no land played; the template is copied,
\* so that it is the same list after the construction.
NewTrialState ==
    [][Constructs =>
          /\ \E p \in shuffle(deck) : Constructed(p)'
          /\ deck' = deck]_vars

\* The part of C16 that the code keeps: the deal, in every revision; the
\* template keeps its cards, and in V001 - V003 their order.
NewTrialStateKept ==
    [][Constructs =>
          /\ \E p \in shuffle(deck) : Constructed(p)'
          /\ BagOf(deck') = BagOf(deck)
          /\ Len(deck') = Len(deck)
          /\ version # "V004" => deck' = deck]_vars

\* The library lib and hand h after a draw gave library lib2 and hand h2:
\* the head of a non-empty library went to the hand, an empty library and
\* the hand stayed as they were.
Drew(lib, h, lib2, h2) ==
    IF lib # <<>>
        THEN /\ DealOrder(lib2) = Tail(DealOrder(lib))
             /\ h2 = Append(h, Head(DealOrder(lib)))
        ELSE /\ lib2 = <<>>
             /\ h2 = h

\* C17: the draw of a turn moves the head of a non-empty Library to the
\* Hand; with an empty Library it changes neither Library nor Hand nor
\* Battlefield and raises nothing; in both cases the engine goes on, and a
\* trial with turns left takes its next turn whatever the Library holds.
DrawStep ==
    [][/\ (pc = "play_until_commander" /\ turn' = turn + 1) =>
              /\ Drew(game_deck, hand, game_deck', hand')
              /\ battlefield' = battlefield
              /\ pc' = "play_land"
       /\ (pc = "simulate_game" /\ turn' = turn + 1) =>
              /\ \E g \in {V4Draw(V4Game)} :
                     /\ Drew(game_deck, hand, g.library, g.hand)
                     /\ g.battlefield = battlefield
                     /\ game_deck' = g.library
              /\ pc' \in {"simulate_game", "v4_returned"}
       /\ (pc \in {"play_until_commander", "simulate_game"}
              /\ turn < max_turns) => turn' = turn + 1]_vars

\* The draw of turn 3 found the library empty, and the turn goes on.
DrawStepWitness ==
    /\ pc = "play_land"
    /\ turn = 3
    /\ game_deck = <<>>
    /\ Len(hand) + Len(battlefield) = Len(deck)

\* What play_land is to return on hand h, battlefield bf, turn t and
\* land-drop flag lp, said by position: the Land at the least position of
\* the hand leaves it for the battlefield, or nothing changes.
LandDrop(h, bf, t, lp, r) ==
    LET L == {k \in 1..Len(h) : IsLandCard(h[k])}
    IN IF lp = 0 /\ L # {}
           THEN \E i \in L :
                   /\ \A j \in L : i <= j
                   /\ r.hand = SubSeq(h, 1, i - 1) \o SubSeq(h, i + 1, Len(h))
                   /\ r.battlefield = Append(bf, <<h[i], t>>)
                   /\ r.lands_played = 1
                   /\ r.ret = TRUE
           ELSE /\ r.hand = h
                /\ r.battlefield = bf
                /\ r.lands_played = lp
                /\ r.ret = FALSE

ByKind(card, tp, t) ==
    CASE card.ctype = "land" -> ~(card.enters_tapped /\ tp = t)
      [] card.ctype = "rock" -> TRUE
      [] card.ctype = "dork" -> t > tp
      [] card.ctype \in {"reducer", "filler"} -> FALSE

\* V001 - V003: can_produce_mana follows the kinds, and available_mana sums
\* produce_mana over the permanents that can produce this turn.
ManaByKindV3 ==
    InGameV3 =>
        /\ \A i \in 1..Len(deck) : \A tp \in 1..MaxTurns : \A t \in tp..MaxTurns :
               can_produce_mana(deck[i], tp, t) = ByKind(deck[i], tp, t)
        /\ available_mana(battlefield, turn) = totalMana(battlefield, turn)

\* V004: the land that the coming turn plays enters tapped.
V4EntersTapped ==
    \E d \in {V4Draw(V4Game)} :
        \E i \in {Least({k \in 1..Len(d.hand) : IsLand(d.hand[k])})} :
            /\ i # 0
            /\ play(d.hand[i], battlefield, turn + 1)

\* C19 (as stated): a Land produces unless it entered tapped this very turn,
\* a rock produces from the turn it is deployed, a reducer and a filler
\* never do; the mana total of a turn counts exactly the permanents that can
\* produce on that turn, so not a Land that entered tapped on it.
ManaByKind ==
    /\ ManaByKindV3
    /\ (pc = "simulate_game" /\ turn < max_turns) =>
           \E g \in {V4TurnBody(V4Game)} :
               g.total_mana =
                   LandsIn(g.battlefield) - (IF V4EntersTapped THEN 1 ELSE 0)
                   + V4RocksIn(g.battlefield) + V4DorksIn(battlefield)

\* The part of C19 that the code keeps: V001 - V003 as stated; total_mana of
\* V004 counts every Land of the battlefield, tapped or not.
ManaByKindKept ==
    /\ ManaByKindV3
    /\ (pc = "simulate_game" /\ turn < max_turns) =>
           \E g \in {V4TurnBody(V4Game)} :
               g.total_mana =
                   LandsIn(g.battlefield) + V4RocksIn(g.battlefield)
                   + V4DorksIn(battlefield)

\* The lands among V004's mana_sources: the lands that entered untapped.
UntappedLands(ms) == SelectSeq(ms, IsLand)

\* V004, a turn of simulate_game: a land that enters is resolved by play()
\* against the battlefield it enters, a ConditionalLand untapped exactly when
\* its condition holds there, and joins mana_sources when untapped; no land
\* that entered earlier is resolved again.
V4Resolves ==
    (pc = "simulate_game" /\ turn' = turn + 1) =>
        IF LandsIn(battlefield') > LandsIn(battlefield)
            THEN \E card \in {battlefield'[Len(battlefield) + 1]} :
                    \E tapped \in {IF card.class = "ConditionalLand"
                                        THEN ~has_mountain(battlefield)
                                        ELSE card.enters_tapped} :
                        /\ IsLand(card)
                        /\ LandsIn(battlefield') = LandsIn(battlefield) + 1
                        /\ UntappedLands(mana_sources') =
                               IF tapped THEN UntappedLands(mana_sources)
                               ELSE Append(UntappedLands(mana_sources), card)
            ELSE UntappedLands(mana_sources') = UntappedLands(mana_sources)

\* C20 (as stated): the entry-tapped state of a Land is resolved once, when
\* it moves to the Battlefield: a conditional Land by its predicate on the
\* Battlefield it enters (true: untapped, false: tapped); the state is never
\* resolved again; and resolving it is part of playing the land, which puts
\* the land on the Battlefield.
EntryTappedResolution ==
    [][/\ V4Resolves
       /\ pc' # "AttributeError"]_vars

\* The part of C20 that the code keeps: ConditionalLand.play in V004.
EntryTappedResolutionKept == [][V4Resolves]_vars

\* V001 - V003: the positions of the hand h holding a rock, dork or reducer
\* whose cost the pooled mana of battlefield bf pays in turn t.
Deployable(h, bf, t) ==
    {k \in 1..Len(h) :
        /\ h[k].ctype \in {"rock", "dork", "reducer"}
        /\ h[k].cost <= SumValues(totalMana(bf, t))}

\* V001 - V003, a pass of the deployment loop: the first deployable card of
\* the hand enters the battlefield with the current turn and the loop goes
\* round again on the mana that is there then; the phase ends by a pass that
\* finds none, and at the commander check none is left.
GreedyV3 ==
    /\ (InGameV3 /\ pc = "play_permanents") =>
           \E D \in {Deployable(hand, battlefield, turn)} :
               IF D # {}
                   THEN \E i \in D :
                           /\ \A j \in D : i <= j
                           /\ hand' = SubSeq(hand, 1, i - 1)
                                          \o SubSeq(hand, i + 1, Len(hand))
                           /\ battlefield' = Append(battlefield, <<hand[i], turn>>)
                           /\ pc' = "play_permanents"
                   ELSE /\ hand' = hand
                        /\ battlefield' = battlefield
                        /\ pc' = "can_cast_commander"
    /\ (InGameV3 /\ pc = "can_cast_commander") =>
           Deployable(hand, battlefield, turn) = {}

\* V004, the cards that a turn of simulate_game put on the battlefield after
\* its land drop.
V4Deployed ==
    SelectSeq(SubSeq(battlefield', Len(battlefield) + 1, Len(battlefield')),
              LAMBDA c : ~IsLand(c))

\* V004: every card deployed by the turn is a rock or a dork.
V4DeploysPermanents ==
    \A i \in 1..Len(V4Deployed) : V4Deployed[i].class \in {"ManaRock", "ManaDork"}

\* C21 (as stated): after the land drop the engine deploys, again and
\* again, the first rock, dork or reducer of the Hand whose cost is at most
\* the pooled mana total, taken anew after each deployment; when the phase
\* ends no rock, dork or reducer left in Hand costs at most the total, and no
\* Land or Filler was deployed.
GreedyDeployment ==
    [][/\ GreedyV3
       /\ (pc = "simulate_game" /\ turn' = turn + 1) =>
              /\ V4DeploysPermanents
              /\ \A k \in 1..Len(hand') :
                     hand'[k].class \in {"ManaRock", "ManaDork"} =>
                         hand'[k].cost >
                             LandsIn(battlefield')
                             - (IF V4EntersTapped THEN 1 ELSE 0)
                             + V4RocksIn(battlefield')
                             + V4DorksIn(battlefield)]_vars

\* V004: mana_available when the deployment loop of the turn ends:
\* len(mana_sources) after the land drop, less the costs paid.
V4ManaLeft ==
    Len(mana_sources)
    + (IF LandsIn(battlefield') > LandsIn(battlefield) /\ ~V4EntersTapped
           THEN 1 ELSE 0)
    - SumSeq([i \in 1..Len(V4Deployed) |-> V4Deployed[i].cost])

\* The part of C21 that the code keeps: V001 - V003 as stated; the loop of
\* V004 stops when no rock or dork of the hand can be paid from what is left
\* of len(mana_sources) after the costs already paid in the turn.
GreedyDeploymentKept ==
    [][/\ GreedyV3
       /\ (pc = "simulate_game" /\ turn' = turn + 1) =>
              /\ V4DeploysPermanents
              /\ V4ManaLeft >= 0
              /\ \A k \in 1..Len(hand') :
                     hand'[k].class \in {"ManaRock", "ManaDork"} =>
                         hand'[k].cost > V4ManaLeft]_vars

\* The battlefield as the deployment phase of the current turn found it:
\* what entered on earlier turns, and this turn's land.
PhaseStart ==
    SelectSeq(battlefield, LAMBDA e : e[2] < turn \/ e[1].ctype = "land")

\* The permanents deployed by the phase of the current turn.
PhaseDeployed ==
    SelectSeq(battlefield, LAMBDA e : e[2] = turn /\ e[1].ctype # "land")

ManaSum(bf) == SumValues(available_mana(bf, turn))

====
